---- MODULE Spec2Model ----
(***************************************************************************)
(* Model of batch_selector.BatchSelector: a constructor that validates the *)
(* batch size and the primary-key shape of a model, and a generator        *)
(* (__iter__) that pages through the model's table with                    *)
(* ORDER BY pk LIMIT batch_size OFFSET offset until a fetch comes back     *)
(* empty.  The table can be changed by other writers between advances, and *)
(* the session's query can raise.                                          *)
(***************************************************************************)
EXTENDS Integers, Sequences, FiniteSets, TLC

\* ---------------------------------------------------------------- bounds
\* primary-key values of the rows are drawn from 1..MaxKey
MaxKey == 3
\* batch sizes passed to the constructor are drawn from -MaxNegBatch..MaxBatchSize
MaxBatchSize == 2
MaxNegBatch == 1
\* mapped models have 0..MaxPKCols primary-key columns
MaxPKCols == 2
\* number of generators started on the one constructed object
NumIters == 2
\* number of inserts/deletes by other writers
MaxMutations == 1

Keys == 1..MaxKey
BatchSizes == (0 - MaxNegBatch)..MaxBatchSize
Iters == 1..NumIters

\* ------------------------------------------------------- values and helpers
Min(a, b) == IF a < b THEN a ELSE b

\* pieces of a formatted message: literal text, or the str() of a model
\* put there by an f-string, or the str() of an integer
Lit(s) == [kind |-> "lit", text |-> s, num |-> 0]
FmtModel(model) == [kind |-> "model", text |-> model.name, num |-> 0]
FmtInt(n) == [kind |-> "int", text |-> "", num |-> n]

ValueError(message) == [type |-> "ValueError", message |-> message]
NoInspectionAvailable(model) ==
    [type |-> "NoInspectionAvailable", message |-> <<FmtModel(model)>>]
OperationalError == [type |-> "OperationalError", message |-> <<Lit("query failed")>>]
TimeoutError == [type |-> "TimeoutError", message |-> <<Lit("query timed out")>>]
\* what primary_key_columns[0] raises on an empty tuple
IndexError == [type |-> "IndexError", message |-> <<Lit("tuple index out of range")>>]
NoError == [type |-> "None", message |-> <<>>]

\* the column names a mapped model can declare as primary key, in order
PKColumns == <<"id", "id2", "id3", "id4">>

\* the values passed as `model`: a class that is not mapped at all, and
\* mapped classes with 0, 1, 2, ... primary-key columns
Models ==
    {[name |-> "NotAModel", mapped |-> FALSE, primary_key |-> <<>>]}
    \cup {[name |-> "Mapped", mapped |-> TRUE,
           primary_key |-> SubSeq(PKColumns, 1, n)] : n \in 0..MaxPKCols}
NoModel == [name |-> "None", mapped |-> FALSE, primary_key |-> <<>>]

Sessions == {"session"}

\* sqlalchemy.inspect(model): the mapper (with its primary_key tuple), or
\* NoInspectionAvailable for a value that is not a mapped class
inspect(model) ==
    IF model.mapped
    THEN [raised |-> NoError, primary_key |-> model.primary_key]
    ELSE [raised |-> NoInspectionAvailable(model), primary_key |-> <<>>]

NoSelector ==
    [session |-> "None", model |-> NoModel, batch_size |-> 0,
     primary_key_column |-> "None"]

\* variant: batch_size < 0
InvalidBatchSizeNegativeOnly(batch_size) == batch_size < 0

\* batch_size < 1
InvalidBatchSize(batch_size) == batch_size < 1

\* variant: no except clause, the introspection error leaves the constructor
TranslateInspectErrorRaw(model, e) == e

\* variant: the message does not format the model
TranslateInspectErrorNoModel(model, e) ==
    ValueError(<<Lit("Could not inspect model. Is it a valid SQLAlchemy model?")>>)

\* except exc.NoInspectionAvailable: raise ValueError(...)
TranslateInspectError(model, e) ==
    ValueError(<<Lit("Could not inspect model "), FmtModel(model),
                 Lit(". Is it a valid SQLAlchemy model?")>>)

\* variant: primary_key_columns is None, never true of a tuple
NoPrimaryKeyIsNone(primary_key_columns) == FALSE

\* not primary_key_columns
NoPrimaryKey(primary_key_columns) == Len(primary_key_columns) = 0

\* variant: len(primary_key_columns) > 2
CompositePrimaryKeyOverTwo(primary_key_columns) == Len(primary_key_columns) > 2

\* len(primary_key_columns) > 1
CompositePrimaryKey(primary_key_columns) == Len(primary_key_columns) > 1

\* variant: the model is introspected before the batch size is checked
BatchSelectorInitInspectFirst(session, model, batch_size) ==
    LET insp == inspect(model)
        primary_key_columns == insp.primary_key
    IN  IF insp.raised # NoError
        THEN [obj |-> NoSelector, inspected |-> TRUE,
              raised |-> TranslateInspectError(model, insp.raised)]
        ELSE IF NoPrimaryKey(primary_key_columns)
        THEN [obj |-> NoSelector, inspected |-> TRUE,
              raised |-> ValueError(
                  <<Lit("Model "), FmtModel(model),
                    Lit(" does not have a primary key.")>>)]
        ELSE IF CompositePrimaryKey(primary_key_columns)
        THEN [obj |-> NoSelector, inspected |-> TRUE,
              raised |-> ValueError(
                  <<Lit("Model "), FmtModel(model),
                    Lit(" has a composite primary key. This BatchSelector currently supports single-column primary keys only.")>>)]
        ELSE IF InvalidBatchSize(batch_size)
        THEN [obj |-> NoSelector, inspected |-> TRUE,
              raised |-> ValueError(
                  <<Lit("batch_size must be greater than or equal to 1")>>)]
        ELSE [obj |-> [session |-> session, model |-> model,
                       batch_size |-> batch_size,
                       primary_key_column |-> primary_key_columns[1]],
              inspected |-> TRUE,
              raised |-> NoError]

\* variant: the constructor fetches the first page ahead of the iteration
ConstructorQueriesPrefetch(session, model, batch_size) ==
    <<[order_by |-> "id", limit |-> batch_size, offset |-> 0]>>

\* the queries __init__ issues on the session: it only stores the session
ConstructorQueries(session, model, batch_size) == <<>>

\* BatchSelector.__init__: the outcome of the constructor, either the
\* object or the exception that leaves it, and whether inspect() was called
BatchSelectorInit(session, model, batch_size) ==
    IF InvalidBatchSize(batch_size)
    THEN [obj |-> NoSelector, inspected |-> FALSE,
          raised |-> ValueError(
              <<Lit("batch_size must be greater than or equal to 1")>>)]
    ELSE LET insp == inspect(model)
             primary_key_columns == insp.primary_key
         IN  IF insp.raised # NoError
             THEN [obj |-> NoSelector, inspected |-> TRUE,
                   raised |-> TranslateInspectError(model, insp.raised)]
             ELSE IF NoPrimaryKey(primary_key_columns)
             THEN [obj |-> NoSelector, inspected |-> TRUE,
                   raised |-> ValueError(
                       <<Lit("Model "), FmtModel(model),
                         Lit(" does not have a primary key.")>>)]
             ELSE IF CompositePrimaryKey(primary_key_columns)
             THEN [obj |-> NoSelector, inspected |-> TRUE,
                   raised |-> ValueError(
                       <<Lit("Model "), FmtModel(model),
                         Lit(" has a composite primary key. This BatchSelector currently supports single-column primary keys only.")>>)]
             ELSE IF Len(primary_key_columns) = 0
             THEN [obj |-> NoSelector, inspected |-> TRUE,
                   raised |-> IndexError]
             ELSE [obj |-> [session |-> session, model |-> model,
                            batch_size |-> batch_size,
                            primary_key_column |-> primary_key_columns[1]],
                   inspected |-> TRUE,
                   raised |-> NoError]

\* ------------------------------------------------------------------ state
VARIABLES
    table,      \* the keys of the rows currently in the model's table
    mutations,  \* inserts and deletes made by other writers so far
    call,       \* the arguments of the constructor call, NoCall before it
    inspected,  \* whether the constructor called inspect(model)
    raised,     \* the exception that left the constructor, or NoError
    selector,   \* the constructed BatchSelector, or NoSelector
    gen,        \* per generator: pc, offset, exception that left it
    queries,    \* per generator: the queries it issued, in order
    yielded,    \* per generator: the batches handed to the caller, in order
    snap,       \* per generator: the table at its first fetch
    stable,     \* per generator: no insert/delete since its first fetch
    thrown,     \* per generator: the exception the session's query raised
    initQueries \* the queries the constructor issued on the session

vars == <<table, mutations, call, inspected, raised, selector,
          gen, queries, yielded, snap, stable, thrown, initQueries>>

NoCall == [session |-> "None", model |-> NoModel, batch_size |-> 0, made |-> FALSE]

\* ------------------------------------------------------------- the query
\* number of rows of `rows` with a key below k
Rank(rows, k) == Cardinality({r \in rows : r < k})

\* variant: the rows in descending key order
OrderByDesc(rows) ==
    [p \in 1..Cardinality(rows) |->
        CHOOSE r \in rows : Rank(rows, r) = Cardinality(rows) - p]

\* .order_by(primary_key_column): the rows in ascending key order
OrderBy(rows) ==
    [p \in 1..Cardinality(rows) |-> CHOOSE r \in rows : Rank(rows, r) = p - 1]

\* .limit(limit).offset(offset) applied to an ordered result
LimitOffset(ordered, limit, offset) ==
    SubSeq(ordered, offset + 1, Min(Len(ordered), offset + limit))

\* session.query(model).order_by(pk).limit(batch_size).offset(offset).all()
Query(rows, limit, offset) == LimitOffset(OrderBy(rows), limit, offset)

\* variant: offset = 1
StartOffsetOne(self) == 1

\* variant: the offset is a field of the object, set to 0 by the constructor
\* and shared by every generator started on it
StartOffsetShared(self) ==
    LET started == {j \in Iters : gen[j].pc # "new"}
        reached == {IF gen[j].pc = "suspended"
                    THEN gen[j].offset + selector.batch_size
                    ELSE gen[j].offset : j \in started}
    IN  IF started = {} THEN 0
        ELSE CHOOSE o \in reached : \A o2 \in reached : o2 <= o

\* offset = 0 at the start of every call of __iter__
StartOffset(self) == 0

\* variant: offset += 1
NextOffsetByOne(offset, batch_size, batch) == offset + 1

\* variant: offset += len(batch)
NextOffsetByLen(offset, batch_size, batch) == offset + Len(batch)

\* offset += self.batch_size after a yield
NextOffset(offset, batch_size, batch) == offset + batch_size

\* variant: if batch is None: break, never true of the list all() returns
EndOfDataIsNone(batch) == FALSE

\* variant: if len(batch) < self.batch_size: break
EndOfDataShort(batch) == Len(batch) < selector.batch_size

\* if not batch: break
EndOfData(batch) == Len(batch) = 0

\* variant: the next page is fetched ahead, before the yield
IssuedByPrefetch(q) == <<q, [q EXCEPT !.offset = @ + q.limit]>>

\* the queries one pass of the loop issues before it yields or breaks
IssuedBy(q) == <<q>>

\* variant: except Exception: raise ValueError(...)
PropagateTranslated(e) == ValueError(<<Lit("query failed")>>)

\* an exception raised by the query inside the loop: there is no try around
\* it, it leaves the generator as it is
Propagate(e) == e

\* the exceptions the session's query can raise
SessionErrors == {OperationalError, TimeoutError}

Init ==
    /\ table \in SUBSET Keys
    /\ mutations = 0
    /\ call = NoCall
    /\ inspected = FALSE
    /\ raised = NoError
    /\ selector = NoSelector
    /\ gen = [i \in Iters |-> [pc |-> "new", offset |-> 0, raised |-> NoError]]
    /\ queries = [i \in Iters |-> <<>>]
    /\ yielded = [i \in Iters |-> <<>>]
    /\ snap = [i \in Iters |-> {}]
    /\ stable = [i \in Iters |-> TRUE]
    /\ thrown = [i \in Iters |-> NoError]
    /\ initQueries = <<>>

\* BatchSelector(session, model, batch_size)
Construct ==
    /\ ~call.made
    /\ \E session \in Sessions, model \in Models, batch_size \in BatchSizes :
          LET r == BatchSelectorInit(session, model, batch_size)
          IN  /\ call' = [session |-> session, model |-> model,
                          batch_size |-> batch_size, made |-> TRUE]
              /\ inspected' = r.inspected
              /\ raised' = r.raised
              /\ selector' = r.obj
              /\ initQueries' = ConstructorQueries(session, model, batch_size)
    /\ UNCHANGED <<table, mutations, gen, queries, yielded, snap, stable,
                   thrown>>

\* variant: the offset is a field of the object that every generator reads
\* and advances
OffsetOfShared(i) ==
    LET started == {j \in Iters : gen[j].pc # "new"}
        reached == {gen[j].offset : j \in started}
    IN  IF started = {} THEN 0
        ELSE (CHOOSE o \in reached : \A o2 \in reached : o2 <= o)
             + selector.batch_size

\* the offset of the query that the next advance of generator i issues:
\* 0 when the generator body starts, the incremented offset when it
\* resumes after a yield
OffsetOf(i) ==
    IF gen[i].pc = "new"
    THEN StartOffset(i)
    ELSE NextOffset(gen[i].offset, selector.batch_size,
                    yielded[i][Len(yielded[i])])

\* variant: .limit(self.batch_size + 1), one row of look-ahead
QueryOfLookAhead(i) ==
    [order_by |-> selector.primary_key_column,
     limit |-> selector.batch_size + 1, offset |-> OffsetOf(i)]

\* the query that the next advance of generator i issues
QueryOf(i) ==
    [order_by |-> selector.primary_key_column,
     limit |-> selector.batch_size, offset |-> OffsetOf(i)]

\* one next() on generator i of the constructed object: run __iter__ from
\* its start or from the yield, up to the next yield or to the end
Advance(i) ==
    /\ selector # NoSelector
    /\ gen[i].pc \in {"new", "suspended"}
    /\ LET q == QueryOf(i)
           batch == Query(table, q.limit, q.offset)
       IN  /\ queries' = [queries EXCEPT ![i] = @ \o IssuedBy(q)]
           /\ IF EndOfData(batch)
              THEN /\ gen' = [gen EXCEPT ![i] = [pc |-> "done",
                                  offset |-> q.offset, raised |-> NoError]]
                   /\ UNCHANGED yielded
              ELSE /\ gen' = [gen EXCEPT ![i] = [pc |-> "suspended",
                                  offset |-> q.offset, raised |-> NoError]]
                   /\ yielded' = [yielded EXCEPT ![i] = Append(@, batch)]
    /\ snap' = IF gen[i].pc = "new" THEN [snap EXCEPT ![i] = table] ELSE snap
    /\ UNCHANGED <<table, mutations, call, inspected, raised, selector, stable,
                   thrown, initQueries>>

\* one next() on generator i whose query raises: the exception leaves the
\* generator, which is finished from then on
AdvanceFails(i) ==
    /\ selector # NoSelector
    /\ gen[i].pc \in {"new", "suspended"}
    /\ \E e \in SessionErrors :
          LET q == QueryOf(i)
          IN  /\ queries' = [queries EXCEPT ![i] = @ \o IssuedBy(q)]
              /\ thrown' = [thrown EXCEPT ![i] = e]
              /\ gen' = [gen EXCEPT ![i] = [pc |-> "failed",
                             offset |-> q.offset, raised |-> Propagate(e)]]
    /\ snap' = IF gen[i].pc = "new" THEN [snap EXCEPT ![i] = table] ELSE snap
    /\ UNCHANGED <<table, mutations, call, inspected, raised, selector,
                   yielded, stable, initQueries>>

\* the generators whose iteration is under way
Running == {i \in Iters : gen[i].pc = "suspended"}

\* another writer inserts a row
Insert(k) ==
    /\ mutations < MaxMutations
    /\ k \notin table
    /\ table' = table \cup {k}
    /\ mutations' = mutations + 1
    /\ stable' = [i \in Iters |-> IF i \in Running THEN FALSE ELSE stable[i]]
    /\ UNCHANGED <<call, inspected, raised, selector, gen, queries, yielded, snap,
                   thrown, initQueries>>

\* another writer deletes a row
Delete(k) ==
    /\ mutations < MaxMutations
    /\ k \in table
    /\ table' = table \ {k}
    /\ mutations' = mutations + 1
    /\ stable' = [i \in Iters |-> IF i \in Running THEN FALSE ELSE stable[i]]
    /\ UNCHANGED <<call, inspected, raised, selector, gen, queries, yielded, snap,
                   thrown, initQueries>>

Next ==
    \/ Construct
    \/ \E i \in Iters : Advance(i)
    \/ \E k \in Keys : Insert(k)
    \/ \E k \in Keys : Delete(k)

Spec == Init /\ [][Next]_vars

\* the program against a table no other writer changes, with a session
\* whose queries can raise
NextFaulty ==
    \/ Construct
    \/ \E i \in Iters : Advance(i)
    \/ \E i \in Iters : AdvanceFails(i)

SpecFaulty == Init /\ [][NextFaulty]_vars

\* the program against a table no other writer changes, with a caller that
\* keeps advancing every generator it started
NextStable ==
    \/ Construct
    \/ \E i \in Iters : Advance(i)

SpecStable ==
    /\ Init
    /\ [][NextStable]_vars
    /\ \A i \in Iters : WF_vars(Advance(i))

\* ------------------------------------------------------------ properties
\* the batches of a sequence of batches, one after the other
RECURSIVE Concat(_)
Concat(batches) ==
    IF batches = <<>> THEN <<>>
    ELSE batches[1] \o Concat(Tail(batches))

Range(seq) == {seq[k] : k \in 1..Len(seq)}

\* generator i ran to its end and no row was inserted or deleted meanwhile
Full(i) == gen[i].pc = "done" /\ stable[i]

\* the number of rows of the table generator i iterated over
N(i) == Cardinality(snap[i])

\* the constructor was called with these arguments and raised
Failed == call.made /\ raised # NoError /\ selector = NoSelector

\* the four construction errors, as the code words them
InvalidConfiguration ==
    ValueError(<<Lit("batch_size must be greater than or equal to 1")>>)
UnmappedEntity(model) ==
    ValueError(<<Lit("Could not inspect model "), FmtModel(model),
                 Lit(". Is it a valid SQLAlchemy model?")>>)
MissingPrimaryKey(model) ==
    ValueError(<<Lit("Model "), FmtModel(model),
                 Lit(" does not have a primary key.")>>)
UnsupportedCompositeKey(model) ==
    ValueError(<<Lit("Model "), FmtModel(model),
                 Lit(" has a composite primary key. This BatchSelector currently supports single-column primary keys only.")>>)

\* C1: a full iteration over a stable table of N rows with batch size B
\* yields ceil(N/B) batches (none when N = 0); every batch but the last has
\* B rows, and the last has N - B*floor(N/B) rows when B does not divide N
\* and B rows when it does.
C1_BatchCountAndSizes ==
    \A i \in Iters : Full(i) =>
        LET n == N(i)
            b == selector.batch_size
            ys == yielded[i]
        IN  /\ Len(ys) = (IF n = 0 THEN 0 ELSE (n + b - 1) \div b)
            /\ \A k \in 1..(Len(ys) - 1) : Len(ys[k]) = b
            /\ Len(ys) > 0 =>
                  Len(ys[Len(ys)]) =
                      (IF n % b # 0 THEN n - b * (n \div b) ELSE b)

C1_Witness ==
    \E i \in Iters :
        /\ Full(i)
        /\ N(i) % selector.batch_size # 0
        /\ Len(yielded[i]) >= 2

\* C2: the batches of a full iteration over a stable table, concatenated in
\* yield order, are all N rows, each once, in strictly ascending key order.
C2_ConcatIsAllRowsAscending ==
    \A i \in Iters : Full(i) =>
        LET all == Concat(yielded[i])
        IN  /\ Len(all) = N(i)
            /\ Range(all) = snap[i]
            /\ \A k \in 1..(Len(all) - 1) : all[k] < all[k + 1]

C2_Witness ==
    \E i \in Iters :
        /\ Full(i)
        /\ Len(yielded[i]) >= 2
        /\ N(i) >= 3

C4_StartsWhereObjectStopped ==
    [][\A j \in Iters :
          (/\ gen[j].pc = "new"
           /\ gen'[j].pc # "new"
           /\ \E i \in Iters \ {j} : yielded[i] # <<>>)
          => gen'[j].offset # 0]_vars

\* C4, amended: the offset is state of one started iteration: it never
\* decreases there and an exhausted iteration stays exhausted and yields
\* nothing more, but every iteration started on the object begins at
\* offset 0, whatever other iterations of the object have done.
C4_OffsetPerIteration ==
    [][\A j \in Iters :
          /\ gen[j].pc # "new" => gen'[j].offset >= gen[j].offset
          /\ gen[j].pc = "done" =>
                /\ gen'[j] = gen[j]
                /\ yielded'[j] = yielded[j]
                /\ queries'[j] = queries[j]
          /\ (gen[j].pc = "new" /\ gen'[j].pc # "new") =>
                /\ gen'[j].offset = 0
                /\ queries'[j] = <<[order_by |-> selector.primary_key_column,
                                    limit |-> selector.batch_size,
                                    offset |-> 0]>>]_vars

\* one iteration of the object is exhausted after yielding, and another
\* iteration of the same object has yielded the first batch again
C4_Witness ==
    \E i, j \in Iters :
        /\ i # j
        /\ gen[i].pc = "done"
        /\ Len(yielded[i]) >= 2
        /\ gen[j].pc = "suspended"
        /\ gen[j].offset = 0
        /\ yielded[j] = <<yielded[i][1]>>

\* C5: a batch_size below 1 makes the constructor raise the ValueError
\* 'batch_size must be greater than or equal to 1' and produce no object,
\* whatever the session and the model are.
C5_InvalidBatchSizeRejected ==
    (call.made /\ call.batch_size < 1) =>
        /\ raised = InvalidConfiguration
        /\ selector = NoSelector

C5_Witness ==
    /\ Failed
    /\ call.batch_size = 0
    /\ call.model.mapped
    /\ Len(call.model.primary_key) = 1

\* C6: a model with two or more primary-key columns and a valid batch_size
\* makes the constructor raise the composite-key error, which is neither the
\* missing-key nor the unmapped-model error, and produce no object.
C6_CompositeKeyRejected ==
    (/\ call.made
     /\ call.batch_size >= 1
     /\ call.model.mapped
     /\ Len(call.model.primary_key) >= 2) =>
        /\ raised = UnsupportedCompositeKey(call.model)
        /\ raised # MissingPrimaryKey(call.model)
        /\ raised # UnmappedEntity(call.model)
        /\ selector = NoSelector

C6_Witness ==
    /\ Failed
    /\ call.batch_size >= 1
    /\ call.model.mapped
    /\ Len(call.model.primary_key) = 2

\* C7: a model with no primary-key column and a valid batch_size makes the
\* constructor raise the missing-key error and produce no object.
C7_MissingKeyRejected ==
    (/\ call.made
     /\ call.batch_size >= 1
     /\ call.model.mapped
     /\ Len(call.model.primary_key) = 0) =>
        /\ raised = MissingPrimaryKey(call.model)
        /\ selector = NoSelector

C7_Witness ==
    /\ Failed
    /\ call.batch_size >= 1
    /\ call.model.mapped
    /\ call.model.primary_key = <<>>

\* C8: a model that introspection does not recognise and a valid batch_size
\* make the constructor raise the ValueError 'Could not inspect model ...',
\* not the introspection error itself, and produce no object.
C8_UnmappedModelRejected ==
    (/\ call.made
     /\ call.batch_size >= 1
     /\ ~call.model.mapped) =>
        /\ raised = UnmappedEntity(call.model)
        /\ raised.type # "NoInspectionAvailable"
        /\ selector = NoSelector

C8_Witness ==
    /\ Failed
    /\ call.batch_size >= 1
    /\ ~call.model.mapped
    /\ inspected

\* C9, as claimed: the message of every construction error holds the
\* rejected value: the batch_size for the batch-size error, the model for
\* the other three.
C9_EveryErrorNamesOffender ==
    Failed =>
        IF call.batch_size < 1
        THEN FmtInt(call.batch_size) \in Range(raised.message)
        ELSE FmtModel(call.model) \in Range(raised.message)

\* C9, amended: the messages of the unmapped-model, missing-key and
\* composite-key errors hold the rejected model; the message of the
\* batch-size error is the fixed text 'batch_size must be greater than or
\* equal to 1', which names the parameter and not the rejected value.
C9_ModelErrorsNameModel ==
    Failed =>
        IF call.batch_size < 1
        THEN /\ raised.message =
                   <<Lit("batch_size must be greater than or equal to 1")>>
             /\ FmtInt(call.batch_size) \notin Range(raised.message)
        ELSE FmtModel(call.model) \in Range(raised.message)

C9_Witness ==
    /\ Failed
    /\ call.batch_size >= 1
    /\ ~call.model.mapped
    /\ FmtModel(call.model) \in Range(raised.message)

\* C10, as claimed: with a batch size larger than the number of rows, a full
\* iteration over a stable table yields exactly one batch, holding all rows.
C10_OneBatchWhenBatchLarger ==
    \A i \in Iters :
        (Full(i) /\ selector.batch_size > N(i)) =>
            /\ Len(yielded[i]) = 1
            /\ Range(yielded[i][1]) = snap[i]
            /\ Len(yielded[i][1]) = N(i)

\* C10, amended: with a batch size larger than the number of rows N, a full
\* iteration over a stable table yields exactly one batch holding all N rows
\* when N >= 1, and no batch when N = 0; it ends after the second or,
\* when N = 0, the first query.
C10_OneBatchUnlessEmpty ==
    \A i \in Iters :
        (Full(i) /\ selector.batch_size > N(i)) =>
            IF N(i) = 0
            THEN yielded[i] = <<>> /\ Len(queries[i]) = 1
            ELSE /\ Len(yielded[i]) = 1
                 /\ Range(yielded[i][1]) = snap[i]
                 /\ Len(yielded[i][1]) = N(i)
                 /\ Len(queries[i]) = 2

C10_Witness ==
    \E i \in Iters :
        /\ Full(i)
        /\ N(i) >= 1
        /\ selector.batch_size > N(i)
        /\ Len(yielded[i]) = 1

\* the rows of `rows` at positions offset+1 .. offset+limit of the
\* ascending key order
Page(rows, limit, offset) ==
    {r \in rows : Rank(rows, r) >= offset /\ Rank(rows, r) < offset + limit}

\* the number of next() calls made on generator i so far
Advances(i) ==
    Len(yielded[i]) + (IF gen[i].pc \in {"done", "failed"} THEN 1 ELSE 0)

\* C11: when the session's query raises during an advance, the exception
\* that leaves the generator is the one the session raised, that advance
\* issued exactly one query and yielded nothing, the batches yielded before
\* stay as they are, and the failed generator issues and yields nothing more.
C11_QueryFailurePropagates ==
    [][\A i \in Iters :
          /\ (gen[i].pc # "failed" /\ gen'[i].pc = "failed") =>
                /\ thrown'[i] \in SessionErrors
                /\ gen'[i].raised = thrown'[i]
                /\ Len(queries'[i]) = Len(queries[i]) + 1
                /\ yielded' = yielded
          /\ gen[i].pc = "failed" =>
                /\ gen'[i] = gen[i]
                /\ queries'[i] = queries[i]
                /\ yielded'[i] = yielded[i]]_vars

C11_Witness ==
    \E i \in Iters :
        /\ gen[i].pc = "failed"
        /\ gen[i].raised = TimeoutError
        /\ Len(yielded[i]) >= 1
        /\ Len(queries[i]) = Len(yielded[i]) + 1

\* C12: the iterator does not mask the anomalies of offset pagination: the
\* batch an advance yields is the page of the table as it is at that fetch,
\* at offset (number of batches yielded before) * batch_size, whatever was
\* yielded before and whatever was inserted or deleted since; so a delete
\* below the offset makes a row that is in the table all along go unyielded.
C12_YieldsCurrentPageUnmasked ==
    [][\A i \in Iters :
          yielded'[i] # yielded[i] =>
              LET off == Len(yielded[i]) * selector.batch_size
                  b == yielded'[i][Len(yielded'[i])]
              IN  /\ yielded'[i] = Append(yielded[i], b)
                  /\ gen'[i].offset = off
                  /\ Range(b) = Page(table, selector.batch_size, off)
                  /\ Len(b) = Cardinality(Range(b))]_vars

\* a row that was in the table from the first fetch to the last was never
\* yielded by an exhausted iteration
C12_Witness ==
    \E i \in Iters :
        /\ gen[i].pc = "done"
        /\ mutations = 1
        /\ ~stable[i]
        /\ \E r \in snap[i] \cap table : r \notin Range(Concat(yielded[i]))

\* C13: the k-th query of an iteration orders by the one primary-key column
\* of the model, with limit = batch_size and offset = (k-1)*batch_size, also
\* after a fetch that returned fewer than batch_size rows.
C13_KthQuery ==
    \A i \in Iters : \A k \in 1..Len(queries[i]) :
        /\ Len(call.model.primary_key) = 1
        /\ queries[i][k] = [order_by |-> call.model.primary_key[1],
                            limit |-> call.batch_size,
                            offset |-> (k - 1) * call.batch_size]

C13_Witness ==
    \E i \in Iters : \E k \in 1..Len(yielded[i]) :
        /\ Len(yielded[i][k]) < selector.batch_size
        /\ Len(queries[i]) > k
        /\ queries[i][k + 1].offset = k * selector.batch_size

\* C14: against a table nobody changes, an iteration whose caller keeps
\* advancing ends; a fetch ends it exactly when it returns no rows, and
\* after that it issues no query and yields no batch.
C14_TerminatesAtFirstEmptyFetch ==
    /\ \A i \in Iters : [](selector # NoSelector => <>(gen[i].pc = "done"))
    /\ [][\A i \in Iters :
             /\ queries'[i] # queries[i] =>
                   ((gen'[i].pc = "done") <=>
                        (Page(table, selector.batch_size, gen'[i].offset) = {}))
             /\ gen[i].pc = "done" =>
                   /\ gen'[i] = gen[i]
                   /\ queries'[i] = queries[i]
                   /\ yielded'[i] = yielded[i]]_vars

C14_Witness ==
    \A i \in Iters :
        /\ gen[i].pc = "done"
        /\ N(i) >= 1
        /\ Len(queries[i]) >= 2

\* C15: the number of queries an iteration has issued equals the number of
\* advances requested of it: none before the first advance, k when the
\* caller holds k batches, one more when the iteration has ended.
C15_OneQueryPerAdvance ==
    \A i \in Iters :
        /\ Len(queries[i]) = Advances(i)
        /\ gen[i].pc = "new" => queries[i] = <<>>
        /\ gen[i].pc = "suspended" => Len(queries[i]) = Len(yielded[i])

\* the caller holds one batch, more rows are in the table, one query
C15_Witness ==
    \E i \in Iters :
        /\ gen[i].pc = "suspended"
        /\ Len(yielded[i]) = 1
        /\ Cardinality(table) > selector.batch_size
        /\ Len(queries[i]) = 1

\* C16: the constructor issues no query, whether it raises or returns; the
\* object it returns holds the one primary-key column of the model, no
\* iteration has issued a query before its first advance, and the first
\* query of an iteration is at offset 0.
C16_ConstructionWithoutIO ==
    call.made =>
        /\ initQueries = <<>>
        /\ \A i \in Iters : gen[i].pc = "new" => queries[i] = <<>>
        /\ Failed => \A i \in Iters : queries[i] = <<>>
        /\ selector # NoSelector =>
              /\ Len(call.model.primary_key) = 1
              /\ selector.primary_key_column = call.model.primary_key[1]
              /\ \A i \in Iters :
                    queries[i] # <<>> =>
                        /\ queries[i][1].offset = 0
                        /\ queries[i][1].order_by = selector.primary_key_column

C16_Witness ==
    /\ call.made
    /\ selector # NoSelector
    /\ table # {}
    /\ \A i \in Iters : gen[i].pc = "new" /\ queries[i] = <<>>

C18_QueryCount ==
    \A i \in Iters :
        /\ gen[i].pc = "done" => Len(queries[i]) = Len(yielded[i]) + 1
        /\ Full(i) =>
              Len(queries[i]) =
                  (N(i) + selector.batch_size - 1) \div selector.batch_size + 1

C18_Witness ==
    \E i \in Iters :
        /\ Full(i)
        /\ yielded[i] # <<>>
        /\ Len(yielded[i][Len(yielded[i])]) < selector.batch_size
        /\ queries[i][Len(queries[i])].offset = Len(yielded[i]) * selector.batch_size

\* C19: the batch size is checked before the model is introspected: with
\* batch_size < 1 the batch-size error is raised and inspect is not called,
\* whether the model is unmapped, without key or with a composite key.
C19_BatchSizeCheckedFirst ==
    (call.made /\ call.batch_size < 1) =>
        /\ ~inspected
        /\ raised = InvalidConfiguration
        /\ raised # UnmappedEntity(call.model)
        /\ raised # MissingPrimaryKey(call.model)
        /\ raised # UnsupportedCompositeKey(call.model)

C19_Witness ==
    /\ Failed
    /\ call.batch_size < 1
    /\ ~call.model.mapped
    /\ ~inspected

\* C20: iterating leaves the fields of the object as they are; an advance
\* of one iteration changes nothing of another iteration, and its query is
\* at (number of its own earlier queries) * batch_size; two full iterations
\* of the same object over the same unchanged table yield the same,
\* complete batches.
C20_IterationsIndependent ==
    /\ [][\A i \in Iters :
             /\ selector # NoSelector => selector' = selector
             /\ queries'[i] # queries[i] =>
                   /\ queries'[i][Len(queries'[i])].offset =
                          Len(queries[i]) * selector.batch_size
                   /\ \A j \in Iters \ {i} :
                         /\ gen'[j] = gen[j]
                         /\ queries'[j] = queries[j]
                         /\ yielded'[j] = yielded[j]]_vars
    /\ [](\A i, j \in Iters :
             (Full(i) /\ Full(j) /\ snap[i] = snap[j]) =>
                 /\ yielded[i] = yielded[j]
                 /\ Range(Concat(yielded[i])) = snap[i])

C20_Witness ==
    \E i, j \in Iters :
        /\ i # j
        /\ Full(i)
        /\ Full(j)
        /\ snap[i] = snap[j]
        /\ Len(yielded[i]) >= 2
        /\ yielded[i] = yielded[j]

====
